---- MODULE Spec2Model ----
(***************************************************************************)
(* Model of the OzonSellerApi fetchers: the interval partitioner           *)
(* (tools/functions.py dates_delta), the per-window pagination tasks       *)
(* (fetchers/FBO.py and fetchers/FBS.py _fetch), the window fan-out        *)
(* (_main / run) and the wait loop (tools/functions.py                     *)
(* manage_asyncio_wait).                                                   *)
(*                                                                         *)
(* Time is counted in whole seconds.  A Timestamp is the number of seconds *)
(* since an arbitrary midnight, a Timedelta a number of seconds.           *)
(*                                                                         *)
(* The buffer self.data is a sequence of page blocks [task, page, size]:   *)
(* `self.data += page` extends the list by a whole page between two        *)
(* suspension points, so a block stands for the `size` items of that page. *)
(***************************************************************************)
EXTENDS Integers, Sequences, FiniteSets, TLC

VARIABLES
    time_since,     \* dates_delta argument / self.date_since
    time_to,        \* dates_delta argument / self.date_to
    dpc,            \* partitioner call: "call" | "done" | "off"
    dres,           \* what dates_delta returned or raised
    kind,           \* which fetcher class the object is: "FBO" | "FBS" | "none"
    years,          \* self.years
    interval,       \* self.interval
    data,           \* self.data (None is modelled as the string "None")
    mpc,            \* _main / manage_asyncio_wait: "idle" | "waiting" | "returned" | "raised"
    orch_exc,       \* the exception manage_asyncio_wait raised ("none" when it did not)
    pending,        \* the local `pending` of manage_asyncio_wait
    logged,         \* tasks whose exception was passed to logging.error, in order
    tstate,         \* per task: "none" | "created" | "inflight" | "ok" | "failed" | "cancelled"
    texc,           \* per task: the exception the task ended with
    since,          \* per task: the `since` argument of _fetch
    offset,         \* per task: the local `offset` of _fetch
    nreq,           \* per task: number of requests sent (session.post calls)
    cancel_req,     \* per task: Task.cancel() was called on it
    served,         \* per task: the successful responses it processed, in order
    cap,            \* provider: a window holds at most `cap` pages
    until,          \* per task: the end of its window (to_strf / the date_to argument)
    page,           \* per task: the local `page` of the Finance _fetch
    page_count,     \* provider, per window: the page_count it reports (Finance)
    runs,           \* number of run() calls made on the object
    last_resp,      \* history: the response processed last, and by which task
    fname,          \* normalizer / merger call: which function is called
    args,           \* its arguments (lists are sequences of heap addresses)
    heap,           \* the records the arguments and results refer to
    ret,            \* what the call returned
    fpc             \* the call: "call" | "done" | "off"

dvars == <<time_since, time_to, dpc, dres>>
ovars == <<kind, years, interval>>
mvars == <<mpc, orch_exc, pending, logged>>
tvars == <<tstate, texc, since, offset, nreq, cancel_req, served>>
xvars == <<until, page, page_count, runs>>
nvars == <<fname, args, heap, ret, fpc>>
vars == <<dvars, ovars, data, mvars, tvars, cap, xvars, last_resp, nvars>>

----------------------------------------------------------------------------
(* Bounds of the model *)

MaxSpanYears == 3   \* ranges of up to MaxSpanYears years (plus a day) are partitioned
MaxYears == 2       \* a run fans out over at most MaxYears windows
RunPages == 2       \* pages per window in a fanned-out run
MaxPages == 3       \* pages per window when a single window is fetched
FinancePages == 1   \* pages per window in a fanned-out Finance run

(* Program constants *)

Limit == 1000       \* "limit": 1000 of _request_body; the 1000 of _fetch
YearDays == 365     \* the 365 of dates_delta

Day == 24 * 3600
Hour == 60 * 60
Second == 1         \* offsets.Second(1)

----------------------------------------------------------------------------
(* tools/functions.py: dates_delta *)

\* Timedelta.days: the whole days of a duration (floor).
TimedeltaDays(td) == td \div Day

\* float.__ceil__ of n / d for an integer n and d > 0.
Ceil(n, d) == -((-n) \div d)

\* Timedelta / int truncates to the resolution of the Timedelta.
TimedeltaDiv(td, n) == IF td >= 0 THEN td \div n ELSE -((-td) \div n)

CeilYearsFloorPlusOne(days) == days \div YearDays + 1

CeilYears(days) == Ceil(days, YearDays)

dates_delta(t_since, t_to) ==
    LET delta == t_to - t_since
        yrs == CeilYears(TimedeltaDays(delta))
    IN  IF yrs = 0
          THEN [err |-> "ZeroDivisionError", years |-> 0, step |-> 0]
          ELSE [err |-> "none", years |-> yrs, step |-> TimedeltaDiv(delta, yrs)]

----------------------------------------------------------------------------
(* The provider's responses *)

NoResult == 0 - 1      \* the response body has no "result" key

PageSizes == {0, 437, Limit}

PostingsSizes == {437}

\* FBO: {"result": [...]} or {"message": ...}; FBS: {"result": {"postings": [...],
\* "has_next": ...}} or {"message": ...}.  `message` is whether the body carries a
\* truthy "message"; has_next is only read by the FBS fetcher.
Responses(k) ==
    [status : {200, 500}, message : BOOLEAN,
     result : (IF k = "FBS" THEN PostingsSizes ELSE PageSizes) \cup {NoResult},
     has_next : IF k = "FBS" THEN BOOLEAN ELSE {FALSE}]

Finished(i) == tstate[i] \in {"ok", "failed", "cancelled"}

\* run() has ended: manage_asyncio_wait returned or raised.
Reported == mpc \in {"returned", "raised"}

\* The provider holds finitely many items: the cap-th page of a window is the last.
LastPage(r) == IF kind = "FBS" THEN ~r.has_next ELSE r.result < Limit

----------------------------------------------------------------------------
(* Construction *)

NoDelta == [err |-> "none", years |-> 0, step |-> 0]

NoTasks == <<>>

\* No response has been processed yet.
NoResponse == [task |-> 0, status |-> 200, message |-> FALSE, result |-> NoResult]

\* No normalizer or merger call is part of the behaviour.
NoCall ==
    /\ fname = "none"
    /\ args = <<>>
    /\ heap = <<>>
    /\ ret = <<>>
    /\ fpc = "off"

\* __init__ of FBOPostingList / FBSPostingList for the range [0, t_to], on a provider
\* with at most c pages per window.  It only returns when dates_delta does.
Construct(k, t_to, c) ==
    LET r == dates_delta(0, t_to)
    IN  /\ r.err = "none"
        /\ kind = k
        /\ time_since = 0
        /\ time_to = t_to
        /\ years = r.years
        /\ interval = r.step
        /\ data = IF k = "FBO" THEN <<>> ELSE "None"
        /\ dpc = "off"
        /\ dres = NoDelta
        /\ mpc = "idle"
        /\ orch_exc = "none"
        /\ pending = {}
        /\ logged = <<>>
        /\ tstate = NoTasks
        /\ texc = NoTasks
        /\ since = NoTasks
        /\ offset = NoTasks
        /\ nreq = NoTasks
        /\ cancel_req = NoTasks
        /\ served = NoTasks
        /\ cap = c
        /\ until = NoTasks
        /\ runs = 0
        /\ page = NoTasks
        /\ page_count = NoTasks
        /\ last_resp = NoResponse
        /\ NoCall

\* Ranges of 1 .. MaxYears whole years.
RunRanges == {y * YearDays * Day : y \in 1 .. MaxYears}

----------------------------------------------------------------------------
(* fetchers/FBO.py, fetchers/FBS.py: run, _main *)

\* The `since` of the n-th created task: since += self.interval + offsets.Second(1).
WindowStart(n) == time_since + (n - 1) * (interval + Second)

\* run() and _main() up to `await manage_asyncio_wait(pending)`: FBS empties
\* self.data, FBO does not.
CreateTasks ==
    /\ kind \in {"FBO", "FBS"}
    /\ data' = IF kind = "FBS" THEN <<>> ELSE data
    /\ tstate' = [i \in 1 .. years |-> "created"]
    /\ texc' = [i \in 1 .. years |-> "none"]
    /\ since' = [i \in 1 .. years |-> WindowStart(i)]
    /\ offset' = [i \in 1 .. years |-> 0]
    /\ nreq' = [i \in 1 .. years |-> 0]
    /\ cancel_req' = [i \in 1 .. years |-> FALSE]
    /\ served' = [i \in 1 .. years |-> <<>>]
    /\ until' = [i \in 1 .. years |-> WindowStart(i) + interval]
    /\ page' = [i \in 1 .. years |-> 0]
    /\ page_count' = [i \in 1 .. years |-> 0]
    /\ pending' = 1 .. years
    /\ mpc' = IF years = 0 THEN "returned" ELSE "waiting"
    /\ orch_exc' = "none"
    /\ logged' = <<>>
    /\ runs' = runs + 1
    /\ UNCHANGED <<dvars, ovars, cap, last_resp, nvars>>

\* The first run() of the object.
Run == mpc = "idle" /\ CreateTasks

----------------------------------------------------------------------------
(* fetchers/FBO.py, fetchers/FBS.py: _fetch *)

\* FBO: switcher = False if len(result["result"]) < 1000 else True
FBOSwitcherInclusive(n) == ~(n <= Limit)

FBOSwitcher(n) == ~(n < Limit)

\* FBS: has_next = result["result"]["has_next"]
FBSHasNextNegated(r) == ~r.has_next

FBSHasNext(r) == r.has_next

\* offset += 1000, after a page of n items
NextOffsetByCount(off, n) == off + n

NextOffset(off, n) == off + Limit

\* self.data += page
ExtendOverwrite(buf, blk) == <<blk>>

Extend(buf, blk) == Append(buf, blk)

\* A task whose cancel() was called is resumed with CancelledError, never with the
\* result it awaits.
CancelIgnored(i) == FALSE

CancelPending(i) == cancel_req[i]

\* The coroutine's first step: offset = 0, the first body, session.post.
TaskStart(i) ==
    /\ mpc # "idle"
    /\ i \in DOMAIN tstate
    /\ tstate[i] = "created"
    /\ ~CancelPending(i)
    /\ tstate' = [tstate EXCEPT ![i] = "inflight"]
    /\ nreq' = [nreq EXCEPT ![i] = 1]
    /\ UNCHANGED <<dvars, ovars, data, mvars, texc, since, offset, cancel_req, served, cap,
                   xvars, last_resp, nvars>>

\* A cancelled task is resumed with CancelledError at the await it is suspended in.
TaskCancelled(i) ==
    /\ i \in DOMAIN tstate
    /\ tstate[i] \in {"created", "inflight"}
    /\ cancel_req[i]
    /\ tstate' = [tstate EXCEPT ![i] = "cancelled"]
    /\ texc' = [texc EXCEPT ![i] = "CancelledError"]
    /\ UNCHANGED <<dvars, ovars, data, mvars, since, offset, nreq, cancel_req, served, cap,
                   xvars, last_resp, nvars>>

\* The response r arrives: the rest of the loop body, and, when the loop goes on,
\* the next body and session.post.
TaskResponse(i, r) ==
    /\ kind \in {"FBO", "FBS"}
    /\ i \in DOMAIN tstate
    /\ tstate[i] = "inflight"
    /\ ~CancelPending(i)
    /\ (nreq[i] >= cap /\ ~r.message /\ r.result # NoResult) => LastPage(r)
    /\ IF r.message
         THEN /\ tstate' = [tstate EXCEPT ![i] = "failed"]
              /\ texc' = [texc EXCEPT ![i] = "Exception"]
              /\ UNCHANGED <<data, offset, nreq, served>>
         ELSE IF r.result = NoResult
         THEN /\ tstate' = [tstate EXCEPT ![i] = "failed"]
              /\ texc' = [texc EXCEPT ![i] = "KeyError"]
              /\ UNCHANGED <<data, offset, nreq, served>>
         ELSE LET go == IF kind = "FBS" THEN FBSHasNext(r) ELSE FBOSwitcher(r.result)
                  blk == [task |-> i, page |-> Len(served[i]) + 1, size |-> r.result]
              IN  /\ data' = Extend(data, blk)
                  /\ served' = [served EXCEPT ![i] =
                                   Append(@, [size |-> r.result, has_next |-> r.has_next])]
                  /\ offset' = [offset EXCEPT ![i] = NextOffset(@, r.result)]
                  /\ nreq' = [nreq EXCEPT ![i] = IF go THEN @ + 1 ELSE @]
                  /\ tstate' = [tstate EXCEPT ![i] = IF go THEN "inflight" ELSE "ok"]
                  /\ UNCHANGED texc
    /\ UNCHANGED <<dvars, ovars, mvars, since, cancel_req, cap, xvars, nvars>>

----------------------------------------------------------------------------
(* tools/functions.py: manage_asyncio_wait *)

Perms(S) == {f \in [1 .. Cardinality(S) -> S] : \A a, b \in DOMAIN f : f[a] = f[b] => a = b}

\* [not_done_task.cancel() for not_done_task in pending]
CancelNone(pend) == {}

CancelTargets(pend) == pend

\* for done_task in done: ... over the tasks order[k], order[k+1], ...
\* Task.exception() of a cancelled task raises CancelledError, which leaves the loop.
RECURSIVE InspectLoop(_, _, _, _)
InspectLoop(order, k, pend, st) ==
    IF k > Len(order) THEN st
    ELSE LET t == order[k]
         IN  IF tstate[t] = "cancelled"
               THEN [st EXCEPT !.exc = "CancelledError"]
             ELSE IF tstate[t] = "failed"
               THEN InspectLoop(order, k + 1, pend,
                        [st EXCEPT !.logged = Append(@, t),
                                   !.cancel = [p \in DOMAIN @ |->
                                                 @[p] \/ p \in CancelTargets(pend)]])
             ELSE InspectLoop(order, k + 1, pend, st)

\* One iteration of `while pending`: asyncio.wait returns once a pending task is done,
\* with every task that is done by then; then the for loop over `done`.
OrchWake ==
    /\ mpc = "waiting"
    /\ \E i \in pending : Finished(i)
    /\ LET done == {i \in pending : Finished(i)}
           pend == pending \ done
       IN  \E order \in Perms(done) :
             LET st == InspectLoop(order, 1, pend,
                           [cancel |-> cancel_req, logged |-> logged, exc |-> "none"])
             IN  /\ pending' = pend
                 /\ cancel_req' = st.cancel
                 /\ logged' = st.logged
                 /\ orch_exc' = st.exc
                 /\ mpc' = IF st.exc # "none" THEN "raised"
                           ELSE IF pend = {} THEN "returned"
                           ELSE "waiting"
    /\ UNCHANGED <<dvars, ovars, data, tstate, texc, since, offset, nreq, served, cap,
                   xvars, last_resp, nvars>>

----------------------------------------------------------------------------
(* Specifications *)

Next ==
    \/ Run
    \/ \E i \in 1 .. years : TaskStart(i)
    \/ \E i \in 1 .. years : TaskCancelled(i)
    \/ \E i \in 1 .. years : \E r \in Responses(kind) :
           TaskResponse(i, r) /\ UNCHANGED last_resp
    \/ OrchWake

\* The objects and providers of a run: 1 .. MaxYears windows of at most RunPages pages
\* each, or one window of at most MaxPages pages.
RunConfigs ==
    {<<t, RunPages>> : t \in RunRanges} \cup {<<YearDays * Day, MaxPages>>}

\* An FBOPostingList object.
Init == \E c \in RunConfigs : Construct("FBO", c[1], c[2])

Spec == Init /\ [][Next]_vars

\* An FBSPostingList object.
InitFBS == \E c \in RunConfigs : Construct("FBS", c[1], c[2])

SpecFBS == InitFBS /\ [][Next]_vars

\* dates_delta on ranges of 0 .. MaxSpanYears years and a day, with and without a
\* fraction of a day.
DayFractions == {0, Second, Hour, Day - Second}

InitDelta ==
    /\ time_since = 0
    /\ \E d \in 0 .. (MaxSpanYears * YearDays + 1) : \E f \in DayFractions :
         time_to = d * Day + f
    /\ dpc = "call"
    /\ dres = NoDelta
    /\ kind = "none"
    /\ years = 0
    /\ interval = 0
    /\ data = <<>>
    /\ mpc = "off"
    /\ orch_exc = "none"
    /\ pending = {}
    /\ logged = <<>>
    /\ tstate = NoTasks
    /\ texc = NoTasks
    /\ since = NoTasks
    /\ offset = NoTasks
    /\ nreq = NoTasks
    /\ cancel_req = NoTasks
    /\ served = NoTasks
    /\ cap = 0
    /\ until = NoTasks
    /\ runs = 0
    /\ page = NoTasks
    /\ page_count = NoTasks
    /\ last_resp = NoResponse
    /\ NoCall

CallDatesDelta ==
    /\ dpc = "call"
    /\ dres' = dates_delta(time_since, time_to)
    /\ dpc' = "done"
    /\ UNCHANGED <<time_since, time_to, ovars, data, mvars, tvars, cap, xvars, last_resp,
                   nvars>>

NextDelta == CallDatesDelta

SpecDelta == InitDelta /\ [][NextDelta]_vars

----------------------------------------------------------------------------
(* Calendar arithmetic of fetchers/Finance.py: Timestamp + relativedelta *)

EpochYear == 2023   \* Timestamp 0 is EpochYear-01-01 00:00:00

CalYears == EpochYear .. (EpochYear + 3)

IsLeap(y) == (y % 4 = 0 /\ y % 100 # 0) \/ y % 400 = 0

MonthLen(y, m) ==
    IF m = 2 THEN (IF IsLeap(y) THEN 29 ELSE 28)
    ELSE IF m \in {4, 6, 9, 11} THEN 30 ELSE 31

YearLen(y) == IF IsLeap(y) THEN 366 ELSE 365

RECURSIVE DaysBeforeYear(_)
DaysBeforeYear(y) == IF y <= EpochYear THEN 0 ELSE DaysBeforeYear(y - 1) + YearLen(y - 1)

RECURSIVE DaysBeforeMonth(_, _)
DaysBeforeMonth(y, m) == IF m <= 1 THEN 0 ELSE DaysBeforeMonth(y, m - 1) + MonthLen(y, m - 1)

\* Days from the epoch to the date [y, m, d].
ToOrdinal(dt) == DaysBeforeYear(dt.y) + DaysBeforeMonth(dt.y, dt.m) + (dt.d - 1)

\* The date of the n-th day after the epoch.
FromOrdinal(n) ==
    LET y == CHOOSE yy \in CalYears :
                 DaysBeforeYear(yy) <= n /\ n < DaysBeforeYear(yy) + YearLen(yy)
        r == n - DaysBeforeYear(y)
        m == CHOOSE mm \in 1 .. 12 :
                 DaysBeforeMonth(y, mm) <= r /\ r < DaysBeforeMonth(y, mm) + MonthLen(y, mm)
    IN  [y |-> y, m |-> m, d |-> r - DaysBeforeMonth(y, m) + 1]

Min(a, b) == IF a <= b THEN a ELSE b

\* relativedelta(months=+1) on a date: the next month, the day clipped to its length.
NextMonth(dt) ==
    LET y == IF dt.m = 12 THEN dt.y + 1 ELSE dt.y
        m == IF dt.m = 12 THEN 1 ELSE dt.m + 1
    IN  [y |-> y, m |-> m, d |-> Min(dt.d, MonthLen(y, m))]

\* t + relativedelta(months=+1): the time of day is kept.
PlusMonth(t) == ToOrdinal(NextMonth(FromOrdinal(t \div Day))) * Day + (t % Day)

\* t + relativedelta(months=+1, days=+1): the month first, then the day.
PlusMonthOnly(t) == PlusMonth(t)

PlusMonthDay(t) == PlusMonth(t) + Day

----------------------------------------------------------------------------
(* fetchers/Finance.py: __init__, run, _main *)

\* __init__ of AsyncFinanceRealizationList for [t_since, t_to], on a provider with at
\* most c pages per window.
ConstructFinance(t_since, t_to, c) ==
    /\ kind = "Finance"
    /\ time_since = t_since
    /\ time_to = t_to
    /\ years = 0
    /\ interval = 0
    /\ data = <<>>
    /\ dpc = "off"
    /\ dres = NoDelta
    /\ mpc = "idle"
    /\ orch_exc = "none"
    /\ pending = {}
    /\ logged = <<>>
    /\ tstate = NoTasks
    /\ texc = NoTasks
    /\ since = NoTasks
    /\ offset = NoTasks
    /\ nreq = NoTasks
    /\ cancel_req = NoTasks
    /\ served = NoTasks
    /\ cap = c
    /\ until = NoTasks
    /\ runs = 0
    /\ page = NoTasks
    /\ page_count = NoTasks
    /\ last_resp = NoResponse
    /\ NoCall

\* while start < self.to: the windows [start, start + 1 month] of the created tasks.
RECURSIVE FinanceWindows(_, _)
FinanceWindows(start, to) ==
    IF start < to
      THEN <<[since |-> start, until |-> PlusMonth(start)]>>
               \o FinanceWindows(PlusMonthDay(start), to)
      ELSE <<>>

\* run() and _main() up to `await manage_asyncio_wait(pending)`; the provider fixes
\* the page_count of every window.
CreateFinanceTasks ==
    /\ kind = "Finance"
    /\ LET w == FinanceWindows(time_since, time_to)
           n == Len(w)
       IN  /\ data' = <<>>
           /\ tstate' = [i \in 1 .. n |-> "created"]
           /\ texc' = [i \in 1 .. n |-> "none"]
           /\ since' = [i \in 1 .. n |-> w[i].since]
           /\ until' = [i \in 1 .. n |-> w[i].until]
           /\ offset' = [i \in 1 .. n |-> 0]
           /\ page' = [i \in 1 .. n |-> 1]
           /\ nreq' = [i \in 1 .. n |-> 0]
           /\ cancel_req' = [i \in 1 .. n |-> FALSE]
           /\ served' = [i \in 1 .. n |-> <<>>]
           /\ page_count' \in [1 .. n -> 0 .. cap]
           /\ pending' = 1 .. n
           /\ mpc' = IF n = 0 THEN "returned" ELSE "waiting"
    /\ orch_exc' = "none"
    /\ logged' = <<>>
    /\ runs' = runs + 1
    /\ UNCHANGED <<dvars, ovars, cap, last_resp, nvars>>

\* The first run() of the object.
RunFinance == mpc = "idle" /\ CreateFinanceTasks

----------------------------------------------------------------------------
(* fetchers/Finance.py: _fetch *)

OperationsSizes == {437}

\* {"result": {"operations": [...], "page_count": n}} or {"message": ...}; the
\* page_count is the one the provider fixed for the window.
FinanceResponses ==
    [status : {200, 500}, message : BOOLEAN, result : OperationsSizes \cup {NoResult}]

\* switcher = False if page == result["result"]["page_count"] else True
FinanceSwitcherAhead(pg, pc) == ~(pg + 1 = pc)

FinanceSwitcher(pg, pc) == ~(pg = pc)

\* The response r arrives: the rest of the loop body, and, when the loop goes on,
\* the next body and session.post.  A task that runs past the provider's pages is
\* followed for cap requests.
FinanceResponse(i, r) ==
    /\ kind = "Finance"
    /\ i \in DOMAIN tstate
    /\ tstate[i] = "inflight"
    /\ ~CancelPending(i)
    /\ nreq[i] <= cap
    /\ IF r.message
         THEN /\ tstate' = [tstate EXCEPT ![i] = "failed"]
              /\ texc' = [texc EXCEPT ![i] = "Exception"]
              /\ UNCHANGED <<data, page, nreq, served>>
         ELSE IF r.result = NoResult
         THEN /\ tstate' = [tstate EXCEPT ![i] = "failed"]
              /\ texc' = [texc EXCEPT ![i] = "KeyError"]
              /\ UNCHANGED <<data, page, nreq, served>>
         ELSE LET go == FinanceSwitcher(page[i], page_count[i])
                  blk == [task |-> i, page |-> page[i], size |-> r.result]
              IN  /\ data' = Extend(data, blk)
                  /\ served' = [served EXCEPT ![i] =
                                   Append(@, [size |-> r.result, has_next |-> go])]
                  /\ page' = [page EXCEPT ![i] = @ + 1]
                  /\ nreq' = [nreq EXCEPT ![i] = IF go THEN @ + 1 ELSE @]
                  /\ tstate' = [tstate EXCEPT ![i] = IF go THEN "inflight" ELSE "ok"]
                  /\ UNCHANGED texc
    /\ UNCHANGED <<dvars, ovars, mvars, since, offset, cancel_req, cap, until, page_count,
                   runs, nvars>>

NextFinance ==
    \/ RunFinance
    \/ \E i \in DOMAIN tstate : TaskStart(i)
    \/ \E i \in DOMAIN tstate : TaskCancelled(i)
    \/ \E i \in DOMAIN tstate : \E r \in FinanceResponses :
           FinanceResponse(i, r) /\ UNCHANGED last_resp
    \/ OrchWake

\* Ranges from the epoch over 0 .. MaxYears windows.
FinanceRunRanges == {w * 30 * Day : w \in 0 .. MaxYears}

FinanceRunConfigs ==
    {<<t, FinancePages>> : t \in FinanceRunRanges} \cup {<<30 * Day, MaxPages>>}

\* An AsyncFinanceRealizationList object.
InitFinance == \E c \in FinanceRunConfigs : ConstructFinance(0, c[1], c[2])

SpecFinance == InitFinance /\ [][NextFinance]_vars

----------------------------------------------------------------------------
(* The three fetchers *)

\* A step of an object of any of the three classes: Next or NextFinance, the steps the
\* two share written once.
NextFetchers ==
    \/ Run
    \/ RunFinance
    \/ \E i \in DOMAIN tstate : TaskStart(i)
    \/ \E i \in DOMAIN tstate : TaskCancelled(i)
    \/ \E i \in DOMAIN tstate : \E r \in Responses(kind) :
           TaskResponse(i, r) /\ UNCHANGED last_resp
    \/ \E i \in DOMAIN tstate : \E r \in FinanceResponses :
           FinanceResponse(i, r) /\ UNCHANGED last_resp
    \/ OrchWake

SpecFetchers == (Init \/ InitFBS \/ InitFinance) /\ [][NextFetchers]_vars

----------------------------------------------------------------------------
(* The orchestrator over more tasks of one page each, and over no task *)

MaxTasks == 3       \* windows of a run whose windows hold at most one page

\* An FBOPostingList object over 1 .. MaxTasks windows, or an
\* AsyncFinanceRealizationList object, whose range may be empty.
InitOrch ==
    \/ \E y \in 1 .. MaxTasks : Construct("FBO", y * YearDays * Day, 1)
    \/ InitFinance

SpecOrch == InitOrch /\ [][NextFetchers]_vars

----------------------------------------------------------------------------
(* run() called again on the same object *)

MaxRuns == 2        \* run() calls on one object

\* run() is called again once the previous call has returned or raised; the provider
\* is unchanged.
RunAgain == Reported /\ runs < MaxRuns /\ CreateTasks

RunFinanceAgain == Reported /\ runs < MaxRuns /\ CreateFinanceTasks

NextRerun == NextFetchers \/ RunAgain \/ RunFinanceAgain

SpecRerun == (Init \/ InitFBS \/ InitFinance) /\ [][NextRerun]_vars

----------------------------------------------------------------------------
(* The three fetchers with the last processed response kept as history *)

\* History only: which response the loop body has just processed.
Observe(i, r) ==
    last_resp' = [task |-> i, status |-> r.status, message |-> r.message,
                  result |-> r.result]

NextObserved ==
    \/ Run
    \/ RunFinance
    \/ \E i \in DOMAIN tstate : TaskStart(i)
    \/ \E i \in DOMAIN tstate : TaskCancelled(i)
    \/ \E i \in DOMAIN tstate : \E r \in Responses(kind) :
           TaskResponse(i, r) /\ Observe(i, r)
    \/ \E i \in DOMAIN tstate : \E r \in FinanceResponses :
           FinanceResponse(i, r) /\ Observe(i, r)
    \/ OrchWake

InitObserved == Init \/ InitFBS \/ InitFinance

SpecObserved == InitObserved /\ [][NextObserved]_vars

----------------------------------------------------------------------------
(* Records of tools/functions.py and fetchers/Products.py                  *)
(*                                                                         *)
(* A dict is the sequence of its entries [k, v] in insertion order, with    *)
(* distinct keys.  A key is the sequence of the names that "__" joins:      *)
(* "a" is <<"a">>, "a__b" is <<"a", "b">>.  A value is [t, id, x]: an int,  *)
(* None, a dict (x its entries) or a list (x its elements); id names the    *)
(* object a dict or list value is, <<>> for ints and None.  The records of  *)
(* a list argument live in `heap`, a sequence indexed by address; a list of *)
(* records is the sequence of their addresses.                             *)

IntVal(n) == [t |-> "int", id |-> <<>>, x |-> n]

NoneVal == [t |-> "none", id |-> <<>>, x |-> 0]

DictVal(id, d) == [t |-> "dict", id |-> id, x |-> d]

ListVal(id, l) == [t |-> "list", id |-> id, x |-> l]

Entry(k, v) == [k |-> k, v |-> v]

\* isinstance(v, dict)
IsDict(v) == v.t = "dict"

\* list(d)
DictKeys(d) == [j \in 1 .. Len(d) |-> d[j].k]

\* k in d
HasKey(d, k) == \E j \in 1 .. Len(d) : d[j].k = k

\* d[k]
DictGet(d, k) == d[CHOOSE j \in 1 .. Len(d) : d[j].k = k].v

\* d[k] = v: an existing key keeps its place, a new key goes last.
DictSet(d, k, v) ==
    IF HasKey(d, k)
      THEN [j \in 1 .. Len(d) |-> IF d[j].k = k THEN Entry(k, v) ELSE d[j]]
      ELSE Append(d, Entry(k, v))

IsNotKey(k, e) == e.k # k

\* d.pop(k)
DictPop(d, k) == SelectSeq(d, LAMBDA e : IsNotKey(k, e))

\* any(isinstance(i, dict) for i in d.values())
AnyDict(d) == \E j \in 1 .. Len(d) : IsDict(d[j].v)

----------------------------------------------------------------------------
(* tools/functions.py: flatten_dict *)

\* parent_key + "__" + nested_key
JoinKey(pk, nk) == pk \o nk

\* for nested_key, nested_value in parent_dict[parent_key].items():
\*     parent_dict[parent_key + "__" + nested_key] = nested_value
RECURSIVE PromoteItems(_, _, _, _)
PromoteItems(parent, pk, items, j) ==
    IF j > Len(items) THEN parent
    ELSE PromoteItems(DictSet(parent, JoinKey(pk, items[j].k), items[j].v), pk, items, j + 1)

\* for parent_key in list(parent_dict): over the keys keys[j], keys[j+1], ...
RECURSIVE ForParentKeys(_, _, _)
ForParentKeys(parent, keys, j) ==
    IF j > Len(keys) THEN parent
    ELSE LET pk == keys[j]
         IN  IF IsDict(DictGet(parent, pk))
               THEN ForParentKeys(
                        DictPop(PromoteItems(parent, pk, DictGet(parent, pk).x, 1), pk),
                        keys, j + 1)
               ELSE ForParentKeys(parent, keys, j + 1)

\* One round of the loop where the code has a while.
FlattenRecordOnePass(parent, n) ==
    [d |-> ForParentKeys(parent, DictKeys(parent), 1), rounds |-> n + 1]

\* The while loop on one record, after n rounds: the record it leaves and the number
\* of rounds it took.
RECURSIVE FlattenRecord(_, _)
FlattenRecord(parent, n) ==
    IF AnyDict(parent)
      THEN FlattenRecord(ForParentKeys(parent, DictKeys(parent), 1), n + 1)
      ELSE [d |-> parent, rounds |-> n]

\* for parent_dict in array: over the addresses array[j], array[j+1], ...
RECURSIVE FlattenEach(_, _, _)
FlattenEach(h, array, j) ==
    IF j > Len(array) THEN h
    ELSE FlattenEach([h EXCEPT ![array[j]] = FlattenRecord(h[array[j]], 0).d], array, j + 1)

\* flatten_dict(data_to_unpack) on the heap h: array = data_to_unpack.copy() is a new
\* list of the same records.
flatten_dict(h, data_to_unpack) ==
    [heap |-> FlattenEach(h, data_to_unpack, 1), out |-> data_to_unpack]

\* The contents of the records of a list.
Contents(h, lst) == [j \in 1 .. Len(lst) |-> h[lst[j]]]

----------------------------------------------------------------------------
(* A call of flatten_dict, and flatten_dict on what it returned *)

MaxDepth == 2       \* nesting depth of the dict values of a record

Names == {<<"a">>, <<"b">>}

TopKeys == Names \cup {<<"a", "b">>}

Scalars == {IntVal(1), IntVal(2)}

\* Dicts of two entries with distinct keys, the first value of vals1 and the second
\* of vals2.
TwoEntryDicts(keys, vals1, vals2) ==
    UNION {{<<Entry(k1, v1), Entry(k2, v2)>> :
                k2 \in keys \ {k1}, v1 \in vals1, v2 \in vals2} : k1 \in keys}

OneEntryDicts(keys, vals) == {<<Entry(k, v)>> : k \in keys, v \in vals}

\* Values nested at most d deep: ints, the empty dict, chains of one-entry dicts and
\* two-entry dicts of ints.
RECURSIVE NestedVals(_)
NestedVals(d) ==
    IF d = 0 THEN Scalars
    ELSE Scalars
         \cup {DictVal(<<>>, <<>>)}
         \cup {DictVal(<<>>, e) : e \in OneEntryDicts(Names, NestedVals(d - 1))}
         \cup {DictVal(<<>>, e) : e \in TwoEntryDicts(Names, Scalars, Scalars)}

\* Records of at most two entries with values nested at most d deep, one of two values
\* at most one deep.
FlattenRecords(d) ==
    {<<>>} \cup OneEntryDicts(TopKeys, NestedVals(d))
           \cup TwoEntryDicts(TopKeys, NestedVals(d), NestedVals(1))
           \cup TwoEntryDicts(TopKeys, NestedVals(1), NestedVals(d))

\* A few records for the lists of two.
PairRecords ==
    {<<Entry(<<"a">>, IntVal(1))>>,
     <<Entry(<<"a">>, DictVal(<<>>, <<Entry(<<"b">>, IntVal(2))>>))>>}

\* The lists handed to flatten_dict.
FlattenInputs(d) ==
    {<<>>} \cup {<<r>> : r \in FlattenRecords(d)} \cup (PairRecords \X PairRecords)

\* No fetcher object is part of the behaviour.
NoFetcher ==
    /\ time_since = 0
    /\ time_to = 0
    /\ dpc = "off"
    /\ dres = NoDelta
    /\ kind = "none"
    /\ years = 0
    /\ interval = 0
    /\ data = <<>>
    /\ mpc = "off"
    /\ orch_exc = "none"
    /\ pending = {}
    /\ logged = <<>>
    /\ tstate = NoTasks
    /\ texc = NoTasks
    /\ since = NoTasks
    /\ offset = NoTasks
    /\ nreq = NoTasks
    /\ cancel_req = NoTasks
    /\ served = NoTasks
    /\ cap = 0
    /\ until = NoTasks
    /\ runs = 0
    /\ page = NoTasks
    /\ page_count = NoTasks
    /\ last_resp = NoResponse

fvars == <<dvars, ovars, data, mvars, tvars, cap, xvars, last_resp>>

\* The caller holds a list of records; `before` keeps what they were when it called.
InitFlatten ==
    /\ NoFetcher
    /\ fname = "flatten_dict"
    /\ \E recs \in FlattenInputs(MaxDepth) :
         /\ heap = recs
         /\ args = [data |-> [j \in 1 .. Len(recs) |-> j], before |-> recs]
    /\ ret = <<>>
    /\ fpc = "call"

\* flatten_dict(data) returns; `val` keeps what the returned records were then and
\* `rounds` how many rounds of the while loop each record took.
CallFlatten ==
    /\ fname = "flatten_dict"
    /\ fpc = "call"
    /\ LET r == flatten_dict(heap, args.data)
       IN  /\ heap' = r.heap
           /\ ret' = <<[out |-> r.out, val |-> Contents(r.heap, r.out),
                        rounds |-> [j \in 1 .. Len(args.data) |->
                                       FlattenRecord(heap[args.data[j]], 0).rounds]]>>
    /\ fpc' = "done"
    /\ UNCHANGED <<fvars, fname, args>>

\* flatten_dict(flatten_dict(data)) returns.
CallFlattenAgain ==
    /\ fname = "flatten_dict"
    /\ fpc = "done"
    /\ LET r == flatten_dict(heap, ret[1].out)
       IN  /\ heap' = r.heap
           /\ ret' = Append(ret, [out |-> r.out, val |-> Contents(r.heap, r.out),
                                  rounds |-> [j \in 1 .. Len(ret[1].out) |->
                                                 FlattenRecord(heap[ret[1].out[j]], 0).rounds]])
    /\ fpc' = "done2"
    /\ UNCHANGED <<fvars, fname, args>>

NextFlatten == CallFlatten \/ CallFlattenAgain

SpecFlatten == InitFlatten /\ [][NextFlatten]_vars

----------------------------------------------------------------------------
(* tools/functions.py: mult_data, mult_data2 *)

\* The id of a dict or list value is <<owner, ...>>: the address of the record the
\* object belongs to, then its place in that record.  copy.deepcopy(v) for a record at
\* address c: every dict and list in v is a new object, owned by the copy.
RECURSIVE Relabel(_, _)
Relabel(v, c) ==
    IF v.t = "list"
      THEN ListVal(<<c>> \o Tail(v.id), [j \in 1 .. Len(v.x) |-> Relabel(v.x[j], c)])
    ELSE IF v.t = "dict"
      THEN DictVal(<<c>> \o Tail(v.id),
                   [j \in 1 .. Len(v.x) |-> Entry(v.x[j].k, Relabel(v.x[j].v, c))])
    ELSE v

\* copy.copy: a new record holding the same objects.
ShallowCopy(rec, c) == rec

\* deepcopy(group_name), the copy placed at address c
DeepCopy(rec, c) == [j \in 1 .. Len(rec) |-> Entry(rec[j].k, Relabel(rec[j].v, c))]

\* len(record[column])
ColumnLen(rec, column) == Len(DictGet(rec, column).x)

\* for item in range(len(group_name[column])): from item on (items count from 1 here)
RECURSIVE ForItems(_, _, _, _, _)
ForItems(h, new_data, g, column, item) ==
    IF item > ColumnLen(h[g], column) THEN [heap |-> h, out |-> new_data]
    ELSE LET c == Len(h) + 1
             copy == DeepCopy(h[g], c)
             last == DictSet(copy, column, DictGet(copy, column).x[item])
         IN  ForItems(Append(h, last), Append(new_data, c), g, column, item + 1)

\* for group_name in data: over data[j], data[j+1], ...
RECURSIVE ForGroups(_, _, _, _, _)
ForGroups(h, new_data, data_in, column, j) ==
    IF j > Len(data_in) THEN [heap |-> h, out |-> new_data]
    ELSE LET r == ForItems(h, new_data, data_in[j], column, 1)
         IN  ForGroups(r.heap, r.out, data_in, column, j + 1)

mult_data(h, data_in, column) == ForGroups(h, <<>>, data_in, column, 1)

\* for i1 in range(len(note[first_column])): in the branch of unequal lengths
RECURSIVE ForUnequal(_, _, _, _, _, _)
ForUnequal(h, new_data, note, first_column, second_column, i1) ==
    IF i1 > ColumnLen(h[note], first_column) THEN [heap |-> h, out |-> new_data]
    ELSE LET c == Len(h) + 1
             copy == DeepCopy(h[note], c)
             nulled == DictSet(copy, second_column, NoneVal)
             last == DictSet(nulled, first_column, DictGet(nulled, first_column).x[i1])
         IN  ForUnequal(Append(h, last), Append(new_data, c), note,
                        first_column, second_column, i1 + 1)

\* for i1 in range(len(note[first_column])): in the branch of equal lengths
RECURSIVE ForEqual(_, _, _, _, _, _)
ForEqual(h, new_data, note, first_column, second_column, i1) ==
    IF i1 > ColumnLen(h[note], first_column) THEN [heap |-> h, out |-> new_data]
    ELSE LET c == Len(h) + 1
             copy == DeepCopy(h[note], c)
             second == DictSet(copy, second_column, DictGet(copy, second_column).x[i1])
             last == DictSet(second, first_column, DictGet(second, first_column).x[i1])
         IN  ForEqual(Append(h, last), Append(new_data, c), note,
                      first_column, second_column, i1 + 1)

\* for note in data_to_mult: over data_to_mult[j], data_to_mult[j+1], ...
RECURSIVE ForNotes(_, _, _, _, _, _)
ForNotes(h, new_data, data_to_mult, first_column, second_column, j) ==
    IF j > Len(data_to_mult) THEN [heap |-> h, out |-> new_data]
    ELSE LET note == data_to_mult[j]
             r == IF ColumnLen(h[note], first_column) # ColumnLen(h[note], second_column)
                    THEN ForUnequal(h, new_data, note, first_column, second_column, 1)
                    ELSE ForEqual(h, new_data, note, first_column, second_column, 1)
         IN  ForNotes(r.heap, r.out, data_to_mult, first_column, second_column, j + 1)

mult_data2(h, data_to_mult, first_column, second_column) ==
    ForNotes(h, <<>>, data_to_mult, first_column, second_column, 1)

----------------------------------------------------------------------------
(* A call of mult_data or mult_data2 *)

MaxLen == 2         \* length of a list-valued field
MaxRecords == 2     \* records in the list handed to mult_data, mult_data2

\* The j-th element of the list "products" of the record at address a: a dict at the
\* even places, an int at the odd ones.
ProductsElem(a, j) ==
    IF j % 2 = 0 THEN DictVal(<<a, "products", j>>, <<Entry(<<"sku">>, IntVal(j))>>)
    ELSE IntVal(j)

\* The record at address a: an int, two list-valued fields of n1 and n2 elements, and a
\* list that neither function is asked to split.
ExplodeRecord(a, n1, n2) ==
    <<Entry(<<"posting">>, IntVal(a)),
      Entry(<<"products">>, ListVal(<<a, "products">>, [j \in 1 .. n1 |-> ProductsElem(a, j)])),
      Entry(<<"prices">>, ListVal(<<a, "prices">>, [j \in 1 .. n2 |-> IntVal(10 + j)])),
      Entry(<<"tags">>, ListVal(<<a, "tags">>, <<IntVal(0)>>))>>

ExplodeInputs ==
    UNION {{[a \in 1 .. n |-> ExplodeRecord(a, lens[a][1], lens[a][2])] :
                lens \in [1 .. n -> (0 .. MaxLen) \X (0 .. MaxLen)]} : n \in 0 .. MaxRecords}

InitExplode ==
    /\ NoFetcher
    /\ \E recs \in ExplodeInputs :
         /\ heap = recs
         /\ \/ /\ fname = "mult_data"
               /\ args = [data |-> [j \in 1 .. Len(recs) |-> j], before |-> recs,
                          column |-> <<"products">>]
            \/ /\ fname = "mult_data2"
               /\ args = [data |-> [j \in 1 .. Len(recs) |-> j], before |-> recs,
                          first_column |-> <<"products">>, second_column |-> <<"prices">>]
    /\ ret = <<>>
    /\ fpc = "call"

CallMultData ==
    /\ fname = "mult_data"
    /\ fpc = "call"
    /\ LET r == mult_data(heap, args.data, args.column)
       IN  /\ heap' = r.heap
           /\ ret' = <<[out |-> r.out, val |-> Contents(r.heap, r.out)]>>
    /\ fpc' = "done"
    /\ UNCHANGED <<fvars, fname, args>>

CallMultData2 ==
    /\ fname = "mult_data2"
    /\ fpc = "call"
    /\ LET r == mult_data2(heap, args.data, args.first_column, args.second_column)
       IN  /\ heap' = r.heap
           /\ ret' = <<[out |-> r.out, val |-> Contents(r.heap, r.out)]>>
    /\ fpc' = "done"
    /\ UNCHANGED <<fvars, fname, args>>

NextExplode == CallMultData \/ CallMultData2

SpecExplode == InitExplode /\ [][NextExplode]_vars

\* Any of the three functions is called.
InitNormalize == InitFlatten \/ InitExplode

NextNormalize == NextFlatten \/ NextExplode

SpecNormalize == InitNormalize /\ [][NextNormalize]_vars

----------------------------------------------------------------------------
(* fetchers/Products.py: prepare_stocks, full_data *)

\* The values of stock["type"]; a string value holds the place of its string here.
StockTypes == <<"fbo", "fbs">>

StrVal(n) == [t |-> "str", id |-> <<>>, x |-> n]

\* f"{stock['type']}_present" and f"{stock['type']}_reserved" for the types above
PresentKey(type) == <<<<"fbo_present">>, <<"fbs_present">>>>[type.x]

ReservedKey(type) == <<<<"fbo_reserved">>, <<"fbs_reserved">>>>[type.x]

\* for stock in note["stocks"]: over the elements stocks[j], stocks[j+1], ...
RECURSIVE ForStocks(_, _, _)
ForStocks(note, stocks, j) ==
    IF j > Len(stocks) THEN note
    ELSE LET stock == stocks[j].x
             present == DictSet(note, PresentKey(DictGet(stock, <<"type">>)),
                                DictGet(stock, <<"present">>))
             reserved == DictSet(present, ReservedKey(DictGet(stock, <<"type">>)),
                                 DictGet(stock, <<"reserved">>))
         IN  ForStocks(reserved, stocks, j + 1)

\* for note in self.stocks: over the addresses stocks[j], stocks[j+1], ...
RECURSIVE prepare_stocks(_, _, _)
prepare_stocks(h, stocks, j) ==
    IF j > Len(stocks) THEN h
    ELSE LET note == h[stocks[j]]
             filled == ForStocks(note, DictGet(note, <<"stocks">>).x, 1)
         IN  prepare_stocks([h EXCEPT ![stocks[j]] = DictPop(filled, <<"stocks">>)],
                            stocks, j + 1)

\* d.update(other): other's items in order
RECURSIVE Update(_, _, _)
Update(d, other, j) ==
    IF j > Len(other) THEN d
    ELSE Update(DictSet(d, other[j].k, other[j].v), other, j + 1)

\* The overlays in another order: info, price, stock.
MergeInfoFirst(prod, price, stock, info, c) ==
    Update(Update(Update(DeepCopy(prod, c), info, 1), price, 1), stock, 1)

\* data = deepcopy(prod); update(price); update(stock); update(info), data at address c
Merge(prod, price, stock, info, c) ==
    Update(Update(Update(DeepCopy(prod, c), price, 1), stock, 1), info, 1)

\* for prod, price, stock, info in zipped: zip stops at the end of the shortest list.
RECURSIVE ForZipped(_, _, _, _, _, _, _)
ForZipped(h, result, products, prices, stocks, product_info, j) ==
    IF j > Min(Min(Len(products), Len(prices)), Min(Len(stocks), Len(product_info)))
      THEN [heap |-> h, out |-> result]
    ELSE LET c == Len(h) + 1
             merged == Merge(h[products[j]], h[prices[j]], h[stocks[j]],
                             h[product_info[j]], c)
         IN  ForZipped(Append(h, merged), Append(result, c),
                       products, prices, stocks, product_info, j + 1)

\* full_data on the attributes of the object: the heap it leaves, the lists that
\* product_info and prices are then, and the list it returns.
full_data(h, products, prices, stocks, product_info) ==
    LET info == flatten_dict(h, product_info)
        price == flatten_dict(info.heap, prices)
        prepared == prepare_stocks(price.heap, stocks, 1)
        r == ForZipped(prepared, <<>>, products, price.out, stocks, info.out, 1)
    IN  [heap |-> r.heap, prices |-> price.out, product_info |-> info.out, out |-> r.out]

----------------------------------------------------------------------------
(* A call of full_data on collected products *)

MaxProducts == 2    \* records collected from one API method

\* A value that tells its source s (1 products, 2 prices, 3 stocks, 4 product_info) and
\* its place i in the source.
Mark(i, s) == IntVal(10 * i + s)

\* The optional entries e of a record, those of `picked` present.
Pick(picked, e) == SelectSeq(e, LAMBDA x : x.k \in picked)

StockItem(type, i) ==
    DictVal(<<>>, <<Entry(<<"type">>, StrVal(type)),
                   Entry(<<"present">>, IntVal(100 * type + i)),
                   Entry(<<"reserved">>, IntVal(200 * type + i))>>)

\* The i-th record of v2/product/list
ProductRecords(i) ==
    {<<Entry(<<"product_id">>, Mark(i, 1))>> \o Pick(p, <<Entry(<<"offer_id">>, Mark(i, 1))>>) :
        p \in SUBSET {<<"offer_id">>}}

\* The i-th record of v4/product/info/prices
PriceRecords(i) ==
    {Pick(p, <<Entry(<<"offer_id">>, Mark(i, 2))>>)
        \o <<Entry(<<"price">>, DictVal(<<>>, <<Entry(<<"price">>, Mark(i, 2)),
                                               Entry(<<"vat">>, Mark(i, 2))>>))>> :
        p \in SUBSET {<<"offer_id">>}}

\* The i-th record of v3/product/info/stocks
StockRecords(i) ==
    {Pick(p, <<Entry(<<"offer_id">>, Mark(i, 3))>>)
        \o <<Entry(<<"stocks">>, ListVal(<<>>, items))>> :
        p \in SUBSET {<<"offer_id">>},
        items \in {<<>>, <<StockItem(1, i), StockItem(2, i)>>,
                   <<StockItem(1, i), StockItem(1, i + 1)>>}}

\* The i-th record of v2/product/info/list
InfoRecords(i) ==
    {Pick(p, <<Entry(<<"offer_id">>, Mark(i, 4)),
               Entry(<<"fbo_present">>, Mark(i, 4)),
               Entry(<<"price">>, DictVal(<<>>, <<Entry(<<"price">>, Mark(i, 4))>>))>>) :
        p \in SUBSET {<<"offer_id">>, <<"fbo_present">>, <<"price">>}}

\* Lists of 0 .. MaxProducts records: any first record, one form of the later ones.
Collected(first, later) ==
    {<<>>} \cup UNION {{<<r>> \o [j \in 1 .. (n - 1) |-> later[j + 1]] : r \in first} :
                          n \in 1 .. MaxProducts}

LaterProduct(i) == <<Entry(<<"product_id">>, Mark(i, 1)), Entry(<<"offer_id">>, Mark(i, 1))>>

LaterPrice(i) == <<Entry(<<"offer_id">>, Mark(i, 2))>>

LaterStock(i) ==
    <<Entry(<<"stocks">>, ListVal(<<>>, <<StockItem(2, i)>>)), Entry(<<"offer_id">>, Mark(i, 3))>>

LaterInfo(i) == <<Entry(<<"name">>, Mark(i, 4))>>

\* The sequence 1 + n, ..., m + n of addresses.
AddressesFrom(n, m) == [j \in 1 .. m |-> n + j]

\* After run: the four lists hold what the four API methods gave.
InitProducts ==
    /\ NoFetcher
    /\ fname = "full_data"
    /\ \E products \in Collected(ProductRecords(1), [i \in 2 .. MaxProducts |-> LaterProduct(i)]),
          prices \in Collected(PriceRecords(1), [i \in 2 .. MaxProducts |-> LaterPrice(i)]),
          stocks \in Collected(StockRecords(1), [i \in 2 .. MaxProducts |-> LaterStock(i)]),
          product_info \in Collected(InfoRecords(1), [i \in 2 .. MaxProducts |-> LaterInfo(i)]) :
         /\ heap = products \o prices \o stocks \o product_info
         /\ args = [products |-> AddressesFrom(0, Len(products)),
                    prices |-> AddressesFrom(Len(products), Len(prices)),
                    stocks |-> AddressesFrom(Len(products) + Len(prices), Len(stocks)),
                    product_info |-> AddressesFrom(Len(products) + Len(prices) + Len(stocks),
                                                   Len(product_info)),
                    before |-> products \o prices \o stocks \o product_info]
    /\ ret = <<>>
    /\ fpc = "call"

\* full_data() returns.
CallFullData ==
    /\ fname = "full_data"
    /\ fpc = "call"
    /\ LET r == full_data(heap, args.products, args.prices, args.stocks, args.product_info)
       IN  /\ heap' = r.heap
           /\ args' = [args EXCEPT !.prices = r.prices, !.product_info = r.product_info]
           /\ ret' = <<[out |-> r.out, val |-> Contents(r.heap, r.out)]>>
    /\ fpc' = "done"
    /\ UNCHANGED <<fvars, fname>>

NextProducts == CallFullData

SpecProducts == InitProducts /\ [][NextProducts]_vars

----------------------------------------------------------------------------
(* fetchers/Products.py: run, _get_products_prices_stocks, _get_products_info_list *)
(*                                                                         *)
(* The object is in `args`: last_id is self.body["last_id"], lens the lengths *)
(* of self.products, prices, stocks and product_info; src, cnt and thousand  *)
(* are the source being collected, the local cnt of its loop and the request *)
(* number of the info list.  `sent` is the last_id the request in flight     *)
(* carries; `prev` is history: the last_id the previous response of the same *)
(* source in the same run returned, NoLastId if there was none.  fpc is      *)
(* "idle", "post" (a request to source src is in flight), "info" (a request  *)
(* to v2/product/info/list is in flight), "returned" or "raised".            *)

MaxProductPages == 2    \* a source answers at most MaxProductPages requests with more to come

NoLastId == 0           \* "last_id": None

LastIds == {1, 2}

ItemsSizes == {437}

\* The result of _post_request: an exception for a status other than 200, else
\* (items, total, last_id).
ProductsResponses ==
    [status : {200, 500}, items : ItemsSizes,
     total : {0, 437} \cup {n * Limit : n \in 1 .. (MaxProductPages + 1)}, last_id : LastIds]

\* __init__ of Products.
InitProductsRun ==
    /\ NoFetcher
    /\ fname = "Products"
    /\ args = [last_id |-> NoLastId, lens |-> <<0, 0, 0, 0>>, src |-> 0, cnt |-> 0,
               thousand |-> 0, nreq |-> 0, sent |-> NoLastId, prev |-> NoLastId]
    /\ heap = <<>>
    /\ ret = <<>>
    /\ fpc = "idle"

pvars == <<dvars, ovars, data, mvars, tvars, cap, until, page, page_count, last_resp,
           fname, heap, ret>>

\* run(): the four lists are emptied and the first request to v2/product/list is sent
\* with self.body as it is (run() does not touch body["last_id"]).
ProductsRun ==
    /\ fname = "Products"
    /\ fpc \in {"idle", "returned", "raised"}
    /\ runs < MaxRuns
    /\ args' = [args EXCEPT !.lens = <<0, 0, 0, 0>>, !.src = 1, !.cnt = 0, !.thousand = 0,
                            !.nreq = 1, !.sent = args.last_id, !.prev = NoLastId]
    /\ fpc' = "post"
    /\ runs' = runs + 1
    /\ UNCHANGED pvars

\* (len(products_id) / 1000).__ceil__()
Thousands(n) == Ceil(n, Limit)

\* The response r to the request in flight: the rest of the loop body of
\* _get_products_prices_stocks and, when the loop ends, body["last_id"] = None and the
\* first request of what follows.
ProductsResponse(r) ==
    /\ fname = "Products"
    /\ fpc = "post"
    /\ (args.nreq > MaxProductPages /\ r.status = 200) => r.total <= args.cnt + Limit
    /\ IF r.status # 200
         THEN /\ fpc' = "raised"
              /\ args' = args
         ELSE LET cnt == args.cnt + Limit
                  lens == [args.lens EXCEPT ![args.src] = @ + r.items]
              IN  IF cnt < r.total
                    THEN /\ args' = [args EXCEPT !.lens = lens, !.cnt = cnt,
                                                 !.last_id = r.last_id, !.nreq = @ + 1,
                                                 !.sent = r.last_id, !.prev = r.last_id]
                         /\ fpc' = "post"
                  ELSE IF args.src < 3
                    THEN /\ args' = [args EXCEPT !.lens = lens, !.cnt = 0, !.src = @ + 1,
                                                 !.last_id = NoLastId, !.nreq = 1,
                                                 !.sent = NoLastId, !.prev = NoLastId]
                         /\ fpc' = "post"
                  ELSE /\ args' = [args EXCEPT !.lens = lens, !.cnt = cnt,
                                               !.last_id = NoLastId,
                                               !.thousand = IF Thousands(lens[1]) = 0 THEN 0 ELSE 1]
                       /\ fpc' = IF Thousands(lens[1]) = 0 THEN "returned" ELSE "info"
    /\ UNCHANGED <<pvars, runs>>

\* The response to a request of _get_products_info_list: status 200 or not.
ProductsInfoResponse(ok, items) ==
    /\ fname = "Products"
    /\ fpc = "info"
    /\ IF ~ok
         THEN /\ fpc' = "raised"
              /\ args' = args
         ELSE /\ args' = [args EXCEPT !.lens[4] = @ + items,
                                      !.thousand = IF @ < Thousands(args.lens[1]) THEN @ + 1 ELSE @]
              /\ fpc' = IF args.thousand < Thousands(args.lens[1]) THEN "info" ELSE "returned"
    /\ UNCHANGED <<pvars, runs>>

NextProductsRun ==
    \/ ProductsRun
    \/ \E r \in ProductsResponses : ProductsResponse(r)
    \/ \E ok \in BOOLEAN : \E items \in ItemsSizes : ProductsInfoResponse(ok, items)

SpecProductsRun == InitProductsRun /\ [][NextProductsRun]_vars

----------------------------------------------------------------------------
(* The windows of the three fetchers: run() up to the creation of the tasks *)

MaxStartDay == 59   \* Finance ranges start on one of the first MaxStartDay + 1 days
MaxSpanDays == 100  \* and span up to MaxSpanDays days and a fraction of a day

\* An FBOPostingList or FBSPostingList object over a range that dates_delta accepts,
\* or an AsyncFinanceRealizationList object; the provider has nothing to return.
InitWindows ==
    \/ \E k \in {"FBO", "FBS"} :
         \E d \in 0 .. (MaxSpanYears * YearDays + 1) : \E f \in DayFractions :
           Construct(k, d * Day + f, 0)
    \/ \E s \in 0 .. MaxStartDay : \E d \in 0 .. MaxSpanDays : \E f \in DayFractions :
         ConstructFinance(s * Day, (s + d) * Day + f, 0)

NextWindows == Run \/ RunFinance

SpecWindows == InitWindows /\ [][NextWindows]_vars

----------------------------------------------------------------------------
(* Vocabulary of the properties *)

TaskIds == DOMAIN tstate

AllOk == \A i \in TaskIds : tstate[i] = "ok"

SomeFailed == \E i \in TaskIds : tstate[i] = "failed"

RECURSIVE ItemCount(_)
ItemCount(buf) == IF buf = <<>> THEN 0 ELSE Head(buf).size + ItemCount(Tail(buf))

IsTaskBlock(i, b) == b.task = i

\* The blocks of task i in self.data, in buffer order.
TaskBlocks(i) == SelectSeq(data, LAMBDA b : IsTaskBlock(i, b))

\* The pages the provider served to task i, as blocks, in page order.
ServedBlocks(i) ==
    [p \in 1 .. Len(served[i]) |-> [task |-> i, page |-> p, size |-> served[i][p].size]]

Duration == time_to - time_since

MaxSpan == YearDays * Day

----------------------------------------------------------------------------
(* Orchestrator: manage_asyncio_wait under run() *)

\* C1: the orchestrator returns normally only if every submitted task completed
\* successfully; if some task ended with an exception it does not return normally,
\* also when the failing task is the last one to complete.
C1_ReturnsOnlyIfAllOk == mpc = "returned" => AllOk

\* The case of C1 the code gets wrong: a task failed and the wait loop returned.
C1_FailedYetReturned == mpc = "returned" /\ SomeFailed

\* C2: when a task fails, the error delivered to the caller is the failure of the
\* first task observed to have failed, not a sibling's cancellation error.
C2_DeliversFirstFailure ==
    (mpc = "raised" /\ logged # <<>>) => orch_exc = texc[logged[1]]

\* C3: once the orchestrator has inspected a failed task, every task still pending
\* has had its cancellation requested before the orchestrator waits again.
C3_FailFastCancel ==
    logged # <<>> => \A p \in pending : cancel_req[p]

\* C3 witness: a failure was logged while another task was still running, and the
\* loop is waiting again.
C3_Witness ==
    /\ mpc = "waiting"
    /\ logged # <<>>
    /\ \E p \in pending : tstate[p] = "inflight" /\ cancel_req[p]

\* C4: no partial success: in a run in which some task failed, the data buffer the
\* caller reads holds no items.
C4_NoPartialAggregate ==
    (Reported /\ SomeFailed) => ItemCount(data) = 0

\* C5: when every task succeeded the run reports success and the buffer holds, for
\* every window, exactly the pages served to its task, in page order, each once,
\* and nothing else.
C5_CompleteAggregate ==
    (Reported /\ AllOk) =>
        /\ mpc = "returned"
        /\ \A i \in TaskIds : TaskBlocks(i) = ServedBlocks(i)
        /\ \A k \in 1 .. Len(data) : data[k].task \in TaskIds

\* C5 witness: two windows, one page of 437 items each, 874 items in the buffer.
C5_Witness ==
    /\ mpc = "returned"
    /\ years = 2
    /\ AllOk
    /\ \A i \in TaskIds : Len(served[i]) = 1 /\ served[i][1].size = 437
    /\ ItemCount(data) = 874

----------------------------------------------------------------------------
(* Partitioner: dates_delta *)

\* C6: for D = to - since > 0 and M = 365 days the partitioner returns
\* count = ceil(D / M), count * step = D up to the rounding of the division, and
\* step <= M, D being the full duration with its fraction of a day.  (That it
\* returns at all is C7; this is about what it returns.)
C6_CountIsCeilOfDuration ==
    (dpc = "done" /\ Duration > 0 /\ dres.err = "none") =>
        /\ dres.years = Ceil(Duration, MaxSpan)
        /\ dres.years * dres.step <= Duration
        /\ dres.years * dres.step > Duration - dres.years
        /\ dres.step <= MaxSpan

\* C7: for every range with since < to, however short, the partitioner returns
\* count >= 1 and does not fail.
C7_CountAtLeastOne ==
    (dpc = "done" /\ time_since < time_to) =>
        dres.err = "none" /\ dres.years >= 1

\* C8: when D is an exact positive multiple k of M, the partitioner returns
\* count = k and step = M exactly.
C8_ExactMultiple ==
    (dpc = "done" /\ Duration > 0 /\ Duration % MaxSpan = 0) =>
        /\ dres.err = "none"
        /\ dres.years = Duration \div MaxSpan
        /\ dres.step = MaxSpan

\* C8 witness: a range of exactly two years gave two windows of one year.
C8_Witness ==
    /\ dpc = "done"
    /\ Duration = 2 * MaxSpan
    /\ dres = [err |-> "none", years |-> 2, step |-> MaxSpan]

----------------------------------------------------------------------------
(* Paginators: _fetch *)

\* C9: the count-based task goes on exactly while the page it got holds Limit items
\* and stops at the first shorter page; it has then sent as many requests as that
\* page's index and the buffer holds all its pages up to and including that one.
C9_CountBasedPaginator ==
    \A i \in TaskIds :
        LET n == Len(served[i])
        IN  /\ tstate[i] = "inflight" =>
                /\ nreq[i] = n + 1
                /\ \A p \in 1 .. n : served[i][p].size = Limit
            /\ tstate[i] = "ok" =>
                /\ n >= 1
                /\ nreq[i] = n
                /\ served[i][n].size < Limit
                /\ \A p \in 1 .. (n - 1) : served[i][p].size = Limit
                /\ TaskBlocks(i) = ServedBlocks(i)

\* C9 witness: pages of 1000, 1000 and 437 items: 3 requests, 2437 items.
C9_Witness ==
    \E i \in TaskIds :
        /\ tstate[i] = "ok"
        /\ Len(served[i]) = 3
        /\ served[i][1].size = 1000 /\ served[i][2].size = 1000 /\ served[i][3].size = 437
        /\ nreq[i] = 3
        /\ ItemCount(TaskBlocks(i)) = 2437

\* C10: the flag-based task sends a further request exactly while the last response's
\* has_next is true, and none after the first response whose has_next is false.
C10_FlagBasedPaginator ==
    \A i \in TaskIds :
        LET n == Len(served[i])
        IN  /\ tstate[i] = "inflight" =>
                /\ nreq[i] = n + 1
                /\ \A p \in 1 .. n : served[i][p].has_next
            /\ tstate[i] = "ok" =>
                /\ n >= 1
                /\ nreq[i] = n
                /\ ~served[i][n].has_next
                /\ \A p \in 1 .. (n - 1) : served[i][p].has_next

\* C10 witness: has_next true, true, false: 3 requests.
C10_Witness ==
    \E i \in TaskIds :
        /\ tstate[i] = "ok"
        /\ Len(served[i]) = 3
        /\ served[i][1].has_next /\ served[i][2].has_next /\ ~served[i][3].has_next
        /\ nreq[i] = 3

----------------------------------------------------------------------------
(* Page-count paginator: fetchers/Finance.py _fetch *)

\* C11: when the provider reports page_count = n >= 1 the task sends exactly n
\* requests, for the pages 1, 2, ..., n in that order (the request in flight is always
\* the one for page nreq), and ends when page = page_count.
C11_PageCountPaginator ==
    \A i \in TaskIds :
        page_count[i] >= 1 =>
            /\ tstate[i] = "inflight" =>
                /\ page[i] = nreq[i]
                /\ nreq[i] <= page_count[i]
                /\ Len(served[i]) = nreq[i] - 1
            /\ tstate[i] = "ok" =>
                /\ nreq[i] = page_count[i]
                /\ page[i] = page_count[i] + 1
                /\ Len(TaskBlocks(i)) = page_count[i]
                /\ \A k \in 1 .. Len(TaskBlocks(i)) : TaskBlocks(i)[k].page = k

\* C11 witness: page_count = 3: three requests, the pages 1, 2, 3 in the buffer.
C11_Witness ==
    \E i \in TaskIds :
        /\ page_count[i] = 3
        /\ tstate[i] = "ok"
        /\ nreq[i] = 3
        /\ Len(TaskBlocks(i)) = 3

----------------------------------------------------------------------------
(* Error responses: _fetch of FBO, FBS and Finance *)

\* C12: a response with a non-200 status or with an error message aborts the task:
\* the task that processed it has failed (so it sends no further request and the
\* response was not taken as a page), whatever else the body holds.
C12_ErrorResponseAborts ==
    (last_resp.task # 0 /\ (last_resp.status # 200 \/ last_resp.message)) =>
        tstate[last_resp.task] = "failed"

\* The nesting depth of the dict values of a dict: 0 when none of its values is a dict.
RECURSIVE DictDepth(_)
DictDepth(d) ==
    IF Len(d) = 0 THEN 0
    ELSE LET S == {IF IsDict(d[j].v) THEN 1 + DictDepth(d[j].v.x) ELSE 0 : j \in 1 .. Len(d)}
         IN  CHOOSE m \in S : \A n \in S : n <= m

\* C13: flatten_dict returns after at most as many rounds of its while loop on a record
\* as the record's dict values are nested deep, no value of a returned record is a dict,
\* and flatten_dict on what it returned returns the same records with the same contents.
C13_FlattenIdempotent ==
    (fname = "flatten_dict" /\ fpc \in {"done", "done2"}) =>
        /\ Len(ret[1].out) = Len(args.data)
        /\ \A j \in 1 .. Len(ret[1].out) :
             /\ ~AnyDict(ret[1].val[j])
             /\ ret[1].rounds[j] <= DictDepth(args.before[j])
        /\ fpc = "done2" =>
             /\ ret[2].out = ret[1].out
             /\ ret[2].val = ret[1].val
             /\ \A j \in 1 .. Len(ret[2].out) : ret[2].rounds[j] = 0

\* A record nested as deep as the bound allows was flattened, and flattened again.
C13_Witness ==
    /\ fname = "flatten_dict"
    /\ fpc = "done2"
    /\ Len(args.before) = 1
    /\ DictDepth(args.before[1]) = MaxDepth
    /\ Len(ret[1].val[1]) >= 2

\* The addresses of the records of a list.
Addresses(lst) == {lst[j] : j \in 1 .. Len(lst)}

\* C14: after flatten_dict, mult_data or mult_data2 has returned, every record of the
\* input list is what it was before the call, and no record of the output list is a
\* record of the input list.
C14_Pure ==
    (fname \in {"flatten_dict", "mult_data", "mult_data2"} /\ fpc = "done") =>
        /\ Contents(heap, args.data) = args.before
        /\ Addresses(ret[1].out) \cap Addresses(args.data) = {}

\* A value with every dict and list in it owned by address 0: what the value is,
\* whichever objects hold it.
Plain(v) == Relabel(v, 0)

\* Every dict and list in v is owned by the record at address c.
RECURSIVE Owned(_, _)
Owned(v, c) ==
    IF v.t \in {"list", "dict"}
      THEN /\ v.id[1] = c
           /\ \A j \in 1 .. Len(v.x) :
                IF v.t = "dict" THEN Owned(v.x[j].v, c) ELSE Owned(v.x[j], c)
      ELSE TRUE

\* The records at the addresses of out are distinct objects, none of them one of the
\* records of inp, and no dict or list inside one of them is shared with another record.
Unaliased(h, inp, out) ==
    /\ \A p, q \in 1 .. Len(out) : p # q => out[p] # out[q]
    /\ Addresses(out) \cap Addresses(inp) = {}
    /\ \A p \in 1 .. Len(out) :
         \A e \in 1 .. Len(h[out[p]]) : Owned(h[out[p]][e].v, out[p])

\* The number of elements of `column` in the first j records of recs.
RECURSIVE SumLens(_, _, _)
SumLens(recs, column, j) ==
    IF j = 0 THEN 0 ELSE SumLens(recs, column, j - 1) + ColumnLen(recs[j], column)

\* C15: mult_data turns the j-th input record, with n elements in `column`, into the n
\* output records that follow those of the records before it; the i-th of them has the
\* keys of the source, the i-th element in `column` and the source's value in every
\* other field; the output records are new objects that share no dict or list with one
\* another or with the source, and the source records are unchanged.
C15_ExplodeCardinality ==
    (fname = "mult_data" /\ fpc = "done") =>
        LET column == args.column
            out == ret[1].out
        IN  /\ Len(out) = SumLens(args.before, column, Len(args.before))
            /\ \A j \in 1 .. Len(args.before) :
                 \A i \in 1 .. ColumnLen(args.before[j], column) :
                   LET source == args.before[j]
                       rec == heap[out[SumLens(args.before, column, j - 1) + i]]
                   IN  /\ DictKeys(rec) = DictKeys(source)
                       /\ Plain(DictGet(rec, column)) = Plain(DictGet(source, column).x[i])
                       /\ \A e \in 1 .. Len(source) :
                            source[e].k # column =>
                                Plain(DictGet(rec, source[e].k)) = Plain(source[e].v)
            /\ Unaliased(heap, args.data, out)
            /\ Contents(heap, args.data) = args.before

\* Two records, the first with the longest list and the second with an empty one, were
\* exploded.
C15_Witness ==
    /\ fname = "mult_data"
    /\ fpc = "done"
    /\ Len(args.before) = 2
    /\ ColumnLen(args.before[1], args.column) = MaxLen
    /\ ColumnLen(args.before[2], args.column) = 0
    /\ Len(ret[1].out) = MaxLen

\* The output records of mult_data2 that come from the j-th input record.
FromNote(j) ==
    {p \in 1 .. Len(ret[1].out) :
        DictGet(heap[ret[1].out[p]], <<"posting">>) = DictGet(args.before[j], <<"posting">>)}

\* C16: mult_data2 turns a record whose two lists differ in length into one record per
\* element of the longer list, each with None in the field of the shorter list; a
\* record whose two lists have the same length n becomes n records.
C16_LongerListDrives ==
    (fname = "mult_data2" /\ fpc = "done") =>
        \A j \in 1 .. Len(args.before) :
            LET n1 == ColumnLen(args.before[j], args.first_column)
                n2 == ColumnLen(args.before[j], args.second_column)
                shorter == IF n1 < n2 THEN args.first_column ELSE args.second_column
            IN  IF n1 = n2 THEN Cardinality(FromNote(j)) = n1
                ELSE /\ Cardinality(FromNote(j)) = IF n1 < n2 THEN n2 ELSE n1
                     /\ \A p \in FromNote(j) : DictGet(heap[ret[1].out[p]], shorter) = NoneVal

\* What mult_data2 does: one record per element of first_column, second_column None when
\* the lengths differ and the aligned element when they are equal.
ExplodeTwoByFirstColumn ==
    (fname = "mult_data2" /\ fpc = "done") =>
        /\ \A j \in 1 .. Len(args.before) :
             LET n1 == ColumnLen(args.before[j], args.first_column)
                 n2 == ColumnLen(args.before[j], args.second_column)
             IN  /\ Cardinality(FromNote(j)) = n1
                 /\ \A p \in FromNote(j) :
                      LET rec == heap[ret[1].out[p]]
                      IN  IF n1 # n2 THEN DictGet(rec, args.second_column) = NoneVal
                          ELSE \E i \in 1 .. n1 :
                                 /\ Plain(DictGet(rec, args.first_column)) =
                                        Plain(DictGet(args.before[j], args.first_column).x[i])
                                 /\ Plain(DictGet(rec, args.second_column)) =
                                        Plain(DictGet(args.before[j], args.second_column).x[i])
        /\ Unaliased(heap, args.data, ret[1].out)
        /\ Contents(heap, args.data) = args.before

\* The i-th records of the four sources as full_data leaves them, in the order of the
\* overlays: products, prices, stocks, product_info.
SourceRecords(i) ==
    <<heap[args.products[i]], heap[args.prices[i]],
      heap[args.stocks[i]], heap[args.product_info[i]]>>

\* The last of the records of src that has the key k.
LastWith(src, k) ==
    src[CHOOSE s \in 1 .. Len(src) :
            /\ HasKey(src[s], k)
            /\ \A u \in (s + 1) .. Len(src) : ~HasKey(src[u], k)]

\* C17: full_data returns as many records as the shortest of the four lists holds (n
\* for four lists of n), the i-th of them having exactly the keys of the i-th records of
\* products, prices, stocks and product_info, each key with the value of the last of
\* these four that has it.
C17_OverlayLaterWins ==
    (fname = "full_data" /\ fpc = "done") =>
        LET out == ret[1].out
        IN  /\ Len(out) = Min(Min(Len(args.products), Len(args.prices)),
                              Min(Len(args.stocks), Len(args.product_info)))
            /\ \A i \in 1 .. Len(out) :
                 LET merged == heap[out[i]]
                     src == SourceRecords(i)
                 IN  /\ {merged[e].k : e \in 1 .. Len(merged)} =
                            UNION {{src[s][e].k : e \in 1 .. Len(src[s])} : s \in 1 .. 4}
                     /\ \A e \in 1 .. Len(merged) :
                          Plain(merged[e].v) = Plain(DictGet(LastWith(src, merged[e].k), merged[e].k))

\* Four lists of the longest length were merged, and the first records of all four had
\* the key offer_id; so had product_info and stocks fbo_present, and product_info and
\* prices price__price.
C17_Witness ==
    /\ fname = "full_data"
    /\ fpc = "done"
    /\ Len(ret[1].out) = MaxProducts
    /\ \A s \in 1 .. 4 : HasKey(SourceRecords(1)[s], <<"offer_id">>)
    /\ HasKey(SourceRecords(1)[3], <<"fbo_present">>)
    /\ HasKey(SourceRecords(1)[4], <<"fbo_present">>)
    /\ HasKey(SourceRecords(1)[2], <<"price", "price">>)
    /\ HasKey(SourceRecords(1)[4], <<"price", "price">>)
    /\ DictGet(heap[ret[1].out[1]], <<"offer_id">>) = Mark(1, 4)

\* C18: the window [since, until] of every created task lies in the requested range
\* [time_since, time_to].
C18_WindowsWithinRange ==
    \A i \in TaskIds : time_since <= since[i] /\ until[i] <= time_to

\* C19: run creates one task per window: `years` tasks for FBO and FBS, and for Finance
\* one for every start before time_to; the first window starts at time_since, every
\* later window starts one second (FBO, FBS) or one day (Finance) after the end of
\* the window before it, and so strictly after that end.
C19_WindowsOrdered ==
    (mpc # "idle" /\ kind \in {"FBO", "FBS", "Finance"}) =>
        LET n == Len(since)
            gap == IF kind = "Finance" THEN Day ELSE Second
        IN  /\ Len(tstate) = n
            /\ Len(until) = n
            /\ kind \in {"FBO", "FBS"} => n = years /\ n = CeilYears(TimedeltaDays(Duration))
            /\ kind = "Finance" =>
                 /\ n = 0 <=> ~(time_since < time_to)
                 /\ n > 0 => since[n] < time_to /\ ~(until[n] + gap < time_to)
            /\ n > 0 => since[1] = time_since
            /\ \A i \in 1 .. (n - 1) :
                 /\ since[i + 1] = until[i] + gap
                 /\ until[i] < since[i + 1]
            /\ \A i \in 1 .. n : since[i] <= until[i]

\* A Finance run created three windows or more, the first from the last day of a month.
C19_Witness ==
    /\ kind = "Finance"
    /\ mpc = "waiting"
    /\ Len(since) >= 3
    /\ FromOrdinal(time_since \div Day).d = 31
    /\ since[2] = until[1] + Day

\* The places in self.data of the pages that hold items.
ItemPlaces == {p \in 1 .. Len(data) : data[p].size > 0}

\* C20: while a task is between two of its requests none of its items is in self.data,
\* and the items of one task are in self.data as one block, with no page of another
\* task between them.
C20_BufferOnlyAtCompletion ==
    /\ \A i \in TaskIds : tstate[i] = "inflight" => ItemCount(TaskBlocks(i)) = 0
    /\ \A p, q \in ItemPlaces :
         (p < q /\ data[p].task = data[q].task) =>
             \A m \in ItemPlaces : (p < m /\ m < q) => data[m].task = data[p].task

\* The pages of two tasks alternate in self.data.
C20_Interleaved ==
    \E p, m, q \in ItemPlaces :
        /\ p < m /\ m < q
        /\ data[p].task = data[q].task
        /\ data[m].task # data[p].task

----------------------------------------------------------------------------
(* Termination of the paginator loops *)

\* C21: a page-count task goes on only while page < page_count: it never sends more
\* requests than the reported page_count, and one request when page_count is 0 or 1;
\* once that many responses are processed it has stopped.
C21_StopsByPageCount ==
    kind = "Finance" =>
        \A i \in TaskIds :
            /\ nreq[i] <= (IF page_count[i] <= 1 THEN 1 ELSE page_count[i])
            /\ (page_count[i] <= 1 /\ Len(served[i]) >= 1) => tstate[i] # "inflight"

\* The empty window: page_count = 0, and the task is still sending requests after as
\* many pages as the provider is followed for.
C21_RunsPastEmptyWindow ==
    \E i \in TaskIds :
        /\ kind = "Finance"
        /\ page_count[i] = 0
        /\ tstate[i] = "inflight"
        /\ nreq[i] = cap + 1
        /\ Len(served[i]) = cap

----------------------------------------------------------------------------
(* Sequential requests and cursors of one task *)

\* The responses task i has processed: the pages it took and the one it failed on.
Processed(i) == Len(served[i]) + (IF tstate[i] = "failed" THEN 1 ELSE 0)

\* A task has one request more than processed responses while it waits for a response,
\* at most that one when it was cancelled, and none otherwise; the request in flight,
\* the k-th, carries offset (k - 1) * 1000 (FBO, FBS) or page k (Finance).
SequentialCursor ==
    \A i \in TaskIds :
        /\ nreq[i] - Processed(i) \in
               (IF tstate[i] = "inflight" THEN {1}
                ELSE IF tstate[i] = "cancelled" THEN {0, 1} ELSE {0})
        /\ tstate[i] = "inflight" =>
             IF kind = "Finance" THEN page[i] = nreq[i]
             ELSE offset[i] = (nreq[i] - 1) * Limit

\* The cursors change only in a step in which their own task, waiting for a response,
\* processes one; a request is sent only in such a step or when the task starts.
OwnCursorStep ==
    \A i \in DOMAIN tstate \cap DOMAIN tstate' :
        /\ (offset'[i] # offset[i] \/ page'[i] # page[i]) =>
               /\ tstate[i] = "inflight"
               /\ Len(served'[i]) = Len(served[i]) + 1
               /\ \A j \in DOMAIN tstate \ {i} :
                      offset'[j] = offset[j] /\ page'[j] = page[j] /\ nreq'[j] = nreq[j]
        /\ nreq'[i] # nreq[i] =>
               /\ nreq'[i] = nreq[i] + 1
               /\ \/ tstate[i] = "created" /\ nreq[i] = 0
                  \/ tstate[i] = "inflight" /\ Len(served'[i]) = Len(served[i]) + 1

\* C22: within one task the requests are strictly sequential (never two in flight,
\* request k + 1 only after response k was processed), the k-th request carries
\* offset (k - 1) * 1000 or page k whatever the earlier pages held, and no task's
\* cursor is changed by a step of another task.
C22_SequentialRequests == []SequentialCursor /\ [][OwnCursorStep]_vars

\* An FBS task sent its second request, with offset 1000, after a page of fewer than
\* 1000 items, while another task had already processed a response.
C22_Witness ==
    \E i, j \in TaskIds :
        /\ i # j
        /\ kind = "FBS"
        /\ tstate[i] = "inflight"
        /\ nreq[i] = 2
        /\ offset[i] = Limit
        /\ ItemCount(TaskBlocks(i)) < Limit
        /\ Len(served[j]) >= 1

----------------------------------------------------------------------------
(* Cooperative cancellation *)

\* From the request of its cancellation on, a task sends no request and appends
\* nothing to self.data.
CancelledTaskIsQuiet ==
    \A i \in DOMAIN tstate \cap DOMAIN tstate' :
        cancel_req[i] =>
            /\ nreq'[i] = nreq[i]
            /\ served'[i] = served[i]
            /\ tstate'[i] \in {tstate[i], "cancelled"}
            /\ data' # data => data'[Len(data')].task # i

\* C23: a task whose cancellation the orchestrator has requested ends cancelled at the
\* await it is suspended in: it never ends ok or failed, and from the request on it
\* sends no new request and appends no item to the aggregate.
C23_CooperativeCancel ==
    /\ [](\A i \in TaskIds : cancel_req[i] => tstate[i] \in {"created", "inflight", "cancelled"})
    /\ [][CancelledTaskIsQuiet]_vars

\* A task was cancelled between its first page and the answer to its second request.
C23_Witness ==
    \E i \in TaskIds :
        /\ cancel_req[i]
        /\ tstate[i] = "cancelled"
        /\ nreq[i] = 2
        /\ Len(TaskBlocks(i)) = 1

----------------------------------------------------------------------------
(* The orchestrator after the first failure *)

\* C24: once the orchestrator has logged a failed task and requested the cancellation
\* of the pending ones it is not waiting for tasks again: it has reported to its caller.
C24_StopsWaitingAfterFailure == logged # <<>> => Reported

\* The orchestrator logged a failure, cancelled the pending tasks and waits for them.
C24_WaitsForCancelled ==
    /\ logged # <<>>
    /\ mpc = "waiting"
    /\ pending # {}
    /\ \A p \in pending : cancel_req[p]

----------------------------------------------------------------------------
(* The partitioner on an empty range *)

\* C25: for time_since = time_to dates_delta does not return a (years, interval)
\* pair: it ends with ZeroDivisionError.
C25_EmptyRangeRejected ==
    (dpc = "done" /\ time_since = time_to) =>
        /\ dres.err = "ZeroDivisionError"
        /\ dres.years = 0

\* dates_delta was called on an empty range and has ended.
C25_Witness ==
    /\ dpc = "done"
    /\ time_since = time_to
    /\ dres.err # "none"

----------------------------------------------------------------------------
(* Progress of the orchestrator *)

\* C26: every submitted task is inspected by the wait loop: when the orchestrator has
\* finished, by returning or by raising, no task is left in its pending set.
C26_EveryTaskInspected == Reported => pending = {}

\* The orchestrator raised while a task it never inspected was still pending.
C26_LeftUninspected ==
    /\ mpc = "raised"
    /\ \E p \in pending : tstate[p] \in {"created", "inflight", "cancelled"}

\* What the wait loop does keep: each iteration takes at least one task out of the
\* pending set and never puts one back, and only finished tasks leave it.
PendingShrinks ==
    pending' # pending =>
        \/ mpc = "idle"
        \/ /\ pending' \subseteq pending
           /\ pending' # pending
           /\ \A i \in pending \ pending' : Finished(i)

C26_PendingShrinks == [][PendingShrinks]_vars

----------------------------------------------------------------------------
(* run() called more than once *)

\* C27: from the start of a run() on, self.data holds as many items of a window as
\* were served to the window's task in that run, none from an earlier run, so a second
\* run against an unchanged provider leaves what one run leaves.
C27_OnlyLastRun ==
    (mpc # "idle" /\ kind \in {"FBO", "FBS", "Finance"}) =>
        \A i \in TaskIds : ItemCount(TaskBlocks(i)) = ItemCount(ServedBlocks(i))

\* The second run() returned with every page of a window twice in self.data.
C27_Duplicated ==
    /\ runs = 2
    /\ mpc = "returned"
    /\ AllOk
    /\ \E i \in TaskIds :
         /\ Len(served[i]) >= 1
         /\ TaskBlocks(i) = ServedBlocks(i) \o ServedBlocks(i)

----------------------------------------------------------------------------
(* The cursor of Products *)

\* C28: the request in flight to product list, prices or stocks carries None when it is
\* the first of its source in this run, and otherwise the last_id that the previous
\* response of the same source returned; in every run().
C28_CursorReset ==
    (fname = "Products" /\ fpc = "post") => args.sent = args.prev

\* The second run() sent its first request with the last_id of the run that aborted.
C28_StaleCursor ==
    /\ fname = "Products"
    /\ fpc = "post"
    /\ runs = 2
    /\ args.src = 1
    /\ args.nreq = 1
    /\ args.sent # NoLastId

\* In the first run() of an object the cursor is as C28 says.
FirstRunCursor == runs <= 1 => C28_CursorReset

====
